---- MODULE Spec2Model ----
(***************************************************************************)
(* Bengali appointment agent: the session registry, the media session      *)
(* handler, the conversation driver and the periodic sweep of src/main.py, *)
(* and the webhook-forwarding step of src/main.py and                      *)
(* src/services/n8n_service.py.                                            *)
(*                                                                         *)
(* Scheduling is the single asyncio event loop: a task runs without        *)
(* interruption from one await to the next.  cur is the task that holds    *)
(* the loop (0 when every task is suspended at an await); a task is        *)
(* resumed only when cur = 0 and every statement between two awaits is a   *)
(* step of the task that holds the loop.  Exceptions are those of class    *)
(* Exception; task cancellation (process shutdown) is not modelled.        *)
(***************************************************************************)
EXTENDS Integers, Sequences, FiniteSets, TLC

\* ------------------------------------------------------------------ bounds
MaxConn == 2
MaxCall == 2

Conns == 1..MaxConn
CallIds == 1..MaxCall

VARIABLES
    active_sessions,  \* main.py:47, the registry: a set of session records
    conn,             \* one websocket_endpoint task per socket connection
    cur,              \* the task that holds the event loop, 0 if none
    swept,            \* call ids deleted by the last sweep cycle
    fwd,              \* one frame passing through N8nIntegrationProcessor
    hook              \* one POST / passing through handle_twilio_call

vars == <<active_sessions, conn, cur, swept, fwd, hook>>

\* ------------------------------------------------------- the registry dict
\* active_sessions is a Python dict keyed by call_sid.  It is kept as a set of
\* records so that "one record per key" is a property of the dict operations.
DictHas(d, k) == \E r \in d : r.call_sid = k

DictGet(d, k) == CHOOSE r \in d : r.call_sid = k

\* d[k] = rec without replacing the record already stored under k
DictSetAppend(d, k, rec) == d \cup {rec}

\* d[k] = rec
DictSet(d, k, rec) == {r \in d : r.call_sid # k} \cup {rec}

\* del d[k] that leaves the key in place
DictDelKeep(d, k) == d

\* del d[k]
DictDel(d, k) == {r \in d : r.call_sid # k}

\* d[k]["status"] = s (the caller has checked DictHas, else KeyError)
DictSetStatus(d, k, s) ==
    {IF r.call_sid = k THEN [r EXCEPT !.status = s] ELSE r : r \in d}

\* ------------------------------------------------------------ first frames
\* What receive_text() yields: the peer disconnects, or sends a text that is
\* not JSON, JSON that is not an object, or a JSON object with or without
\* "event", "start", "start.streamSid", "start.customParameters.caller_id".
Frame(recv, json, event, start, caller) ==
    [recv |-> recv, json |-> json, event |-> event, start |-> start,
     caller |-> caller]

NoFrame == Frame("none", "none", "none", "none", "none")

FirstFrames ==
    {Frame("disconnect", "none", "none", "none", "none"),
     Frame("text", "garbage", "none", "none", "none"),
     Frame("text", "array", "none", "none", "none")}
    \cup {Frame("text", "object", e, "sid", "none") : e \in {"none", "media"}}
    \cup {Frame("text", "object", "start", s, "none") : s \in {"none", "nosid"}}
    \cup {Frame("text", "object", "start", "sid", c) : c \in {"none", "+8801"}}

\* lines 132-137 with the stream identifier read by .get(): no KeyError
StartOutcomeLenient(f) ==
    IF f.recv = "disconnect" THEN "raise"
    ELSE IF f.json # "object" THEN "raise"
    ELSE IF f.event # "start" THEN "skip"
    ELSE IF f.start = "none" THEN "raise"
    ELSE "create"

\* lines 132-137: what the handler does with the first frame
StartOutcome(f) ==
    IF f.recv = "disconnect" THEN "raise"          \* 132 receive_text raises
    ELSE IF f.json = "garbage" THEN "raise"        \* 133 json.loads raises
    ELSE IF f.json = "array" THEN "raise"          \* 135 no .get on a list
    ELSE IF f.event # "start" THEN "skip"          \* 135 the if is false
    ELSE IF f.start = "none" THEN "raise"          \* 137 KeyError 'start'
    ELSE IF f.start = "nosid" THEN "raise"         \* 137 KeyError 'streamSid'
    ELSE "create"

\* line 139: custom_params.get("caller_id", "unknown")
CallerOf(f) == IF f.caller = "none" THEN "unknown" ELSE f.caller

\* lines 144-151: the record stored for connection h; uuid4 is modelled by a
\* value unique to the connection, the socket handle by the connection
SessionRecord(h, c, f) ==
    [call_sid |-> c, session_id |-> h, stream_sid |-> "MZ", caller_id |-> CallerOf(f),
     websocket |-> h, status |-> "active"]

\* ------------------------------------------------------------------- texts
\* A Python str is a sequence of codepoints.
MaxFrags == 2

Space == <<32>>
Newline == <<10>>
KwAppointment == <<97, 112, 112, 111, 105, 110, 116, 109, 101, 110, 116>>
KwBook == <<98, 111, 111, 107>>
KwSchedule == <<115, 99, 104, 101, 100, 117, 108, 101>>
KwTime == <<116, 105, 109, 101>>
KwDate == <<100, 97, 116, 101>>
KwCancel == <<99, 97, 110, 99, 101, 108>>
KwReschedule == <<114, 101, 115, 99, 104, 101, 100, 117, 108, 101>>
KwChange == <<99, 104, 97, 110, 103, 101>>
KwConfirm == <<99, 111, 110, 102, 105, 114, 109>>
KwCheck == <<99, 104, 101, 99, 107>>
KwStatus == <<115, 116, 97, 116, 117, 115>>
UpperBOOK == <<66, 79, 79, 75>>
MixedCancel == <<67, 97, 110, 99, 101, 108>>
PlainHi == <<104, 105>>
PlainRe == <<114, 101>>
ReplyOK == <<79, 75>>

\* n8n_service.py:90, the two arguments of range()
BengaliStart == 2432
BengaliStop == 2559

\* The pieces utterances are built from: the keywords, upper-case spellings,
\* white space, and codepoints in, at the ends of and next to U+0980..U+09FF.
Fragments ==
    {Space, Newline, PlainHi, PlainRe, UpperBOOK, MixedCancel,
     KwAppointment, KwBook, KwSchedule, KwTime, KwDate,
     KwCancel, KwChange, KwConfirm, KwCheck, KwStatus,
     <<BengaliStart - 1>>, <<BengaliStart>>, <<2438>>, <<BengaliStop - 1>>,
     <<BengaliStop>>, <<BengaliStop + 1>>}

RECURSIVE TextsOf(_)
TextsOf(n) ==
    IF n = 0 THEN {<<>>}
    ELSE LET p == TextsOf(n - 1) IN p \cup {a \o b : a \in p, b \in Fragments}

Texts == TextsOf(MaxFrags)

\* str.isspace() of one codepoint
IsSpace(c) ==
    c \in (9..13) \cup (28..32) \cup {133, 160, 5760, 8232, 8233, 8239, 8287, 12288}
          \cup (8192..8202)

RECURSIVE LStrip(_)
LStrip(t) ==
    IF t = <<>> THEN t
    ELSE IF IsSpace(Head(t)) THEN LStrip(Tail(t)) ELSE t

RECURSIVE RStrip(_)
RStrip(t) ==
    IF t = <<>> THEN t
    ELSE IF IsSpace(t[Len(t)]) THEN RStrip(SubSeq(t, 1, Len(t) - 1)) ELSE t

\* main.py:63, str.strip()
Strip(t) == RStrip(LStrip(t))

\* str.lower() of one codepoint (the model's codepoints have case in ASCII only)
LowerChar(c) == IF c >= 65 /\ c <= 90 THEN c + 32 ELSE c

\* n8n_service.py:95, str.lower()
Lower(t) == [i \in 1..Len(t) |-> LowerChar(t[i])]

\* Python's "w in t" on strings
Contains(t, w) ==
    \E i \in 0..(Len(t) - Len(w)) : SubSeq(t, i + 1, i + Len(w)) = w

\* n8n_service.py:90, range(0x0980, 0x09FF)
BengaliRange == BengaliStart..(BengaliStop - 1)

\* n8n_service.py:88-91
IsBengali(text) == \E i \in 1..Len(text) : text[i] \in BengaliRange

BookWords == {KwAppointment, KwBook, KwSchedule, KwTime, KwDate}
ModifyWords == {KwCancel, KwReschedule, KwChange}
CheckWords == {KwConfirm, KwCheck, KwStatus}

\* n8n_service.py:93-104 without the lower() of line 95
DetectIntentCaseSensitive(text) ==
    IF \E word \in BookWords : Contains(text, word) THEN "book_appointment"
    ELSE IF \E word \in ModifyWords : Contains(text, word) THEN "modify_appointment"
    ELSE IF \E word \in CheckWords : Contains(text, word) THEN "check_appointment"
    ELSE "general_inquiry"

\* n8n_service.py:93-104
DetectIntent(text) ==
    LET text_lower == Lower(text) IN
    IF \E word \in BookWords : Contains(text_lower, word) THEN "book_appointment"
    ELSE IF \E word \in ModifyWords : Contains(text_lower, word) THEN "modify_appointment"
    ELSE IF \E word \in CheckWords : Contains(text_lower, word) THEN "check_appointment"
    ELSE "general_inquiry"

\* ---------------------------------------------------- the forwarding step
\* Python values that cross the forwarding boundary
None == [t |-> "None", s |-> <<>>]
Str(s) == [t |-> "str", s |-> s]
Num(n) == [t |-> "int", s |-> <<n>>]
Absent == [t |-> "absent", s |-> <<>>]

\* bool(v)
Truthy(v) ==
    CASE v.t = "str" -> v.s # <<>>
      [] v.t = "int" -> v.s # <<0>>
      [] OTHER -> FALSE

\* n8n_service.py:67
HttpOk == 200

\* What the endpoint does with one POST: the request times out, the transport
\* fails, or a response arrives with a status and a body that is not JSON, a
\* JSON array, or a JSON object whose "response" member is absent or a value.
Endpoint(transport, status, body, response) ==
    [transport |-> transport, status |-> status, body |-> body, response |-> response]

NoEndpoint == Endpoint("none", 0, "none", Absent)

Endpoints ==
    {Endpoint("timeout", 0, "none", Absent), Endpoint("error", 0, "none", Absent)}
    \cup {Endpoint("ok", st, "object", Str(ReplyOK)) : st \in {404, 500}}
    \cup {Endpoint("ok", HttpOk, b, Absent) : b \in {"notjson", "array", "object"}}
    \cup {Endpoint("ok", HttpOk, "object", v) :
            v \in {None, Num(0), Num(5), Str(<<>>), Str(ReplyOK), Str(<<2438, 32>>)}}

\* n8n_service.py:59-86 with a timeout left to propagate
SendToN8nTimeoutRaises(user_message, e) ==
    [ret |-> IF e.transport = "ok" /\ e.status = HttpOk /\ e.body = "object"
                 /\ e.response.t = "str"
             THEN e.response ELSE None,
     raised |-> e.transport = "timeout", posts |-> 1,
     language |-> IF IsBengali(user_message) THEN "bengali" ELSE "english",
     intent |-> DetectIntent(user_message)]

\* n8n_service.py:37-86, send_to_n8n: the value returned, whether an exception
\* leaves the method, the POSTs made, and the metadata of the payload
SendToN8n(user_message, e) ==
    [ret |->
        IF e.transport = "timeout" THEN None            \* 81-83
        ELSE IF e.transport = "error" THEN None         \* 84-86
        ELSE IF e.status # HttpOk THEN None             \* 77-79
        ELSE IF e.body = "notjson" THEN None            \* 68 raises, 84-86
        ELSE IF e.body = "array" THEN None              \* 72 raises, 84-86
        ELSE LET appointment_response ==
                   IF e.response = Absent THEN Str(<<>>) ELSE e.response   \* 72
             IN IF Truthy(appointment_response) /\ appointment_response.t # "str"
                THEN None                               \* 74 raises, 84-86
                ELSE appointment_response,              \* 76
     raised |-> FALSE,
     posts |-> 1,                                       \* 60
     language |-> IF IsBengali(user_message) THEN "bengali" ELSE "english",  \* 51
     intent |-> DetectIntent(user_message)]             \* 52

ResponsePrefix ==
    <<91, 65, 112, 112, 111, 105, 110, 116, 109, 101, 110, 116, 32, 115, 121, 115,
      116, 101, 109, 32, 114, 101, 115, 112, 111, 110, 115, 101, 58, 32>>

\* main.py:77 with one newline
EnhancedTextOneNewline(user_text, n8n_response) ==
    user_text \o <<10>> \o ResponsePrefix \o n8n_response.s \o <<93>>

\* main.py:77, f"{user_text}\n\n[Appointment system response: {n8n_response}]"
EnhancedText(user_text, n8n_response) ==
    user_text \o <<10, 10>> \o ResponsePrefix \o n8n_response.s \o <<93>>

FwdIdle ==
    [phase |-> "idle", kind |-> "none", direction |-> "none", text |-> <<>>,
     endpoint |-> NoEndpoint, reply |-> None, raised |-> FALSE, posts |-> 0,
     language |-> "none", intent |-> "none", out |-> <<>>]

\* A frame reaching the processor: its type, its direction and its text
FwdInputs ==
    {[FwdIdle EXCEPT !.phase = "input", !.kind = k, !.direction = d, !.text = t] :
        k \in {"TranscriptionFrame", "TextFrame"},
        d \in {"UPSTREAM", "DOWNSTREAM"}, t \in Texts}

\* main.py:58-80, process_frame, with the endpoint behaving as e
ProcessFrame(e) ==
    /\ fwd.phase = "input"
    /\ LET user_text == Strip(fwd.text)                              \* 63
           sends == /\ fwd.kind = "TranscriptionFrame"               \* 62
                    /\ fwd.direction = "UPSTREAM"
                    /\ user_text # <<>>                              \* 65
           r == SendToN8n(user_text, e)                              \* 69-72
       IN fwd' =
            IF ~sends
            THEN [fwd EXCEPT !.phase = "done", !.out = fwd.text]
            ELSE [fwd EXCEPT !.phase = "done", !.endpoint = e, !.reply = r.ret,
                             !.raised = r.raised, !.posts = r.posts,
                             !.language = r.language, !.intent = r.intent,
                             !.out = IF ~r.raised /\ Truthy(r.ret)   \* 74-78
                                     THEN EnhancedText(user_text, r.ret)
                                     ELSE fwd.text]
    /\ UNCHANGED <<active_sessions, conn, cur, swept, hook>>

\* ------------------------------------------------- the inbound call handler
\* A form field the request does not carry
Missing == <<-1>>

Unknown == <<117, 110, 107, 110, 111, 119, 110>>
PhoneNumber == <<43, 56, 56, 48, 49>>
QuotedValue == <<97, 34, 98>>
CallSidCA1 == <<67, 65, 49>>
DefaultDomain ==
    <<121, 111, 117, 114, 45, 97, 112, 112, 46, 114, 97, 105, 108, 119, 97, 121,
      46, 97, 112, 112>>
PublicDomain == <<97, 112, 112, 46, 101, 120, 97, 109, 112, 108, 101>>
WssScheme == <<119, 115, 115, 58, 47, 47>>
WsPath == <<47, 119, 115, 47>>

\* The form of one webhook POST: each field missing or present
Forms ==
    [From : {Missing, <<>>, PhoneNumber, QuotedValue},
     CallSid : {Missing, CallSidCA1, QuotedValue},
     To : {Missing, PhoneNumber},
     CallStatus : {Missing, Unknown},
     Direction : {Missing, Unknown},
     AccountSid : {Missing, CallSidCA1}]

NoForm ==
    [From |-> Missing, CallSid |-> Missing, To |-> Missing, CallStatus |-> Missing,
     Direction |-> Missing, AccountSid |-> Missing]

\* dict.get(key, default)
FormGet(v, default) == IF v = Missing THEN default ELSE v

\* twilio_service.py:56-66
ExtractCallInfo(form_data) ==
    [caller_id |-> FormGet(form_data.From, Unknown),
     call_sid |-> FormGet(form_data.CallSid, Unknown),
     to_number |-> FormGet(form_data.To, Unknown),
     call_status |-> FormGet(form_data.CallStatus, Unknown),
     direction |-> FormGet(form_data.Direction, Unknown),
     account_sid |-> FormGet(form_data.AccountSid, Unknown)]

\* The names bound in the module twilio_service when the class body runs:
\* twilio_service.py:1-2, 5, 15-20, 22 (no line imports os)
TwilioServiceGlobals ==
    {"Any", "Dict", "settings", "send_sms", "__all__", "Request", "HTMLResponse",
     "logger", "TwilioService"}

\* The documents the handler answers with
ConnectDocument(url, caller_id, call_sid) ==
    [kind |-> "connect", url |-> url, caller_id |-> caller_id, call_sid |-> call_sid]

\* main.py:116-119
ApologyDocument == [kind |-> "say", url |-> <<>>, caller_id |-> <<>>, call_sid |-> <<>>]

NoDocument == [kind |-> "none", url |-> <<>>, caller_id |-> <<>>, call_sid |-> <<>>]

\* twilio_service.py:25-54, handle_incoming_call: line 36 evaluates the name
\* os, which raises NameError unless the module binds it; lines 37-54 build
\* the document from the values as they are, without XML escaping
HandleIncomingCall(form_data, domain) ==
    LET call_info == ExtractCallInfo(form_data)                        \* 30-31
    IN IF "os" \notin TwilioServiceGlobals                             \* 36
       THEN [raised |-> TRUE, doc |-> NoDocument]
       ELSE LET railway_url == FormGet(domain, DefaultDomain)          \* 36
                websocket_url ==
                    WssScheme \o railway_url \o WsPath \o call_info.call_sid   \* 37
            IN [raised |-> FALSE,
                doc |-> ConnectDocument(websocket_url, call_info.caller_id,
                                        call_info.call_sid)]           \* 42-54

HookIdle ==
    [phase |-> "idle", formOk |-> TRUE, form |-> NoForm, domain |-> Missing,
     raised |-> FALSE, response |-> NoDocument]

\* A POST / reaching the handler: whether request.form() returns, the form,
\* and the value of RAILWAY_PUBLIC_DOMAIN in the environment
HookInputs ==
    {[HookIdle EXCEPT !.phase = "input", !.formOk = ok, !.form = f, !.domain = d] :
        ok \in BOOLEAN, f \in Forms, d \in {Missing, PublicDomain}}

\* main.py:92-119, handle_twilio_call
HandleTwilioCall ==
    /\ hook.phase = "input"
    /\ LET r == HandleIncomingCall(hook.form, hook.domain)             \* 108
       IN hook' =
            [hook EXCEPT
               !.phase = "done",
               !.raised = FALSE,                                       \* 113
               !.response = IF ~hook.formOk THEN ApologyDocument       \* 102, 113-119
                            ELSE IF r.raised THEN ApologyDocument      \* 108, 113-119
                            ELSE r.doc]                                \* 111
    /\ UNCHANGED <<active_sessions, conn, cur, swept, fwd>>

\* ------------------------------------------------------------- connections
InitConn ==
    [pc |-> "idle", call_sid |-> 0, frame |-> NoFrame, exc |-> FALSE,
     accepted |-> FALSE, attempts |-> 0, created |-> FALSE, invoked |-> FALSE,
     failed |-> FALSE, drvLogged |-> FALSE, marked |-> FALSE, logged |-> FALSE,
     keyError |-> FALSE, escaped |-> FALSE,
     closed |-> FALSE, closeFailed |-> FALSE]

Init ==
    /\ active_sessions = {}
    /\ conn = [h \in Conns |-> InitConn]
    /\ cur = 0
    /\ swept = {}
    /\ fwd = FwdIdle
    /\ hook = HookIdle

\* line 127: websocket.accept() on a connection to /ws/{c}; the handler then
\* waits in receive_text().  A failed accept raises outside the try block.
Accept(h, c, ok) ==
    /\ cur = 0
    /\ conn[h].pc = "idle"
    /\ conn' = [conn EXCEPT ![h] =
                 IF ok THEN [@ EXCEPT !.pc = "awaiting_start", !.call_sid = c,
                                      !.accepted = TRUE]
                 ELSE [@ EXCEPT !.pc = "done", !.call_sid = c, !.escaped = TRUE]]
    /\ UNCHANGED <<active_sessions, cur, swept, fwd, hook>>

\* lines 132-141: receive_text() returns or raises, the frame is parsed
Receive(h, f) ==
    /\ cur = 0
    /\ conn[h].pc = "awaiting_start"
    /\ cur' = h
    /\ conn' = [conn EXCEPT ![h] =
                 [@ EXCEPT !.frame = f, !.attempts = @ + 1,
                           !.exc = (StartOutcome(f) = "raise"),
                           !.pc = CASE StartOutcome(f) = "raise" -> "handler_except"
                                    [] StartOutcome(f) = "skip" -> "handler_finally"
                                    [] OTHER -> "create"]]
    /\ UNCHANGED <<active_sessions, swept, fwd, hook>>

\* lines 143-151: create the session
CreateSession(h) ==
    /\ cur = h
    /\ conn[h].pc = "create"
    /\ active_sessions' = DictSet(active_sessions, conn[h].call_sid,
                                  SessionRecord(h, conn[h].call_sid, conn[h].frame))
    /\ conn' = [conn EXCEPT ![h] = [@ EXCEPT !.pc = "drv_setup", !.created = TRUE]]
    /\ UNCHANGED <<cur, swept, fwd, hook>>

\* lines 154, 174-209: the driver is called and builds its pipeline, which
\* any of the services it constructs may fail
DriverSetup(h, ok) ==
    /\ cur = h
    /\ conn[h].pc = "drv_setup"
    /\ conn' = [conn EXCEPT ![h] =
                 [@ EXCEPT !.invoked = TRUE, !.failed = ~ok,
                           !.pc = IF ok THEN "drv_running" ELSE "drv_except"]]
    /\ UNCHANGED <<active_sessions, cur, swept, fwd, hook>>

\* lines 211-216: status "running", then the task waits in queue_frames()
DriverSetRunning(h) ==
    /\ cur = h
    /\ conn[h].pc = "drv_running"
    /\ IF DictHas(active_sessions, conn[h].call_sid)
       THEN /\ active_sessions' =
                 DictSetStatus(active_sessions, conn[h].call_sid, "running")
            /\ conn' = [conn EXCEPT ![h] = [@ EXCEPT !.pc = "in_queue_frames"]]
            /\ cur' = 0
       ELSE /\ conn' = [conn EXCEPT ![h] =
                         [@ EXCEPT !.pc = "drv_except", !.failed = TRUE,
                                   !.keyError = TRUE]]
            /\ UNCHANGED <<active_sessions, cur>>
    /\ UNCHANGED <<swept, fwd, hook>>

\* lines 216-222: queue_frames() returns and the task waits in runner.run(),
\* or queue_frames() raises
ResumeQueueFrames(h, ok) ==
    /\ cur = 0
    /\ conn[h].pc = "in_queue_frames"
    /\ IF ok
       THEN /\ conn' = [conn EXCEPT ![h] = [@ EXCEPT !.pc = "in_runner_run"]]
            /\ UNCHANGED cur
       ELSE /\ conn' = [conn EXCEPT ![h] =
                         [@ EXCEPT !.pc = "drv_except", !.failed = TRUE]]
            /\ cur' = h
    /\ UNCHANGED <<active_sessions, swept, fwd, hook>>

\* line 222: runner.run() returns (the call ended) or raises
ResumeRunnerRun(h, ok) ==
    /\ cur = 0
    /\ conn[h].pc = "in_runner_run"
    /\ cur' = h
    /\ conn' = [conn EXCEPT ![h] =
                 [@ EXCEPT !.failed = ~ok,
                           !.pc = IF ok THEN "drv_finally" ELSE "drv_except"]]
    /\ UNCHANGED <<active_sessions, swept, fwd, hook>>

\* lines 224-226: the driver's except clause; a KeyError raised in it leaves
\* the clause with the exception in flight
DriverExcept(h) ==
    /\ cur = h
    /\ conn[h].pc = "drv_except"
    /\ IF DictHas(active_sessions, conn[h].call_sid)
       THEN /\ active_sessions' =
                 DictSetStatus(active_sessions, conn[h].call_sid, "error")
            /\ conn' = [conn EXCEPT ![h] =
                         [@ EXCEPT !.pc = "drv_finally", !.drvLogged = TRUE,
                                   !.marked = TRUE]]
       ELSE /\ conn' = [conn EXCEPT ![h] =
                         [@ EXCEPT !.pc = "drv_finally", !.drvLogged = TRUE,
                                   !.exc = TRUE, !.keyError = TRUE]]
            /\ UNCHANGED active_sessions
    /\ UNCHANGED <<cur, swept, fwd, hook>>

\* lines 227-229 with an await after the write of line 228: the task gives up
\* the loop with status "ended" stored
DriverFinallyYields(h) ==
    /\ cur = h
    /\ conn[h].pc = "drv_finally"
    /\ IF DictHas(active_sessions, conn[h].call_sid)
       THEN /\ active_sessions' =
                 DictSetStatus(active_sessions, conn[h].call_sid, "ended")
            /\ conn' = [conn EXCEPT ![h] = [@ EXCEPT !.pc = "drv_finally_wait"]]
            /\ cur' = 0
       ELSE /\ conn' = [conn EXCEPT ![h] =
                         [@ EXCEPT !.pc = "handler_except", !.exc = TRUE,
                                   !.keyError = TRUE]]
            /\ UNCHANGED <<active_sessions, cur>>
    /\ UNCHANGED <<swept, fwd, hook>>

\* lines 227-229: the driver's finally clause, then the return to line 154:
\* normally, or with the exception in flight or the KeyError of line 228
DriverFinally(h) ==
    /\ cur = h
    /\ conn[h].pc = "drv_finally"
    /\ IF DictHas(active_sessions, conn[h].call_sid)
       THEN /\ active_sessions' =
                 DictSetStatus(active_sessions, conn[h].call_sid, "ended")
            /\ conn' = [conn EXCEPT ![h] =
                         [@ EXCEPT !.pc = IF conn[h].exc THEN "handler_except"
                                          ELSE "handler_finally"]]
       ELSE /\ conn' = [conn EXCEPT ![h] =
                         [@ EXCEPT !.pc = "handler_except", !.exc = TRUE,
                                   !.keyError = TRUE]]
            /\ UNCHANGED active_sessions
    /\ UNCHANGED <<cur, swept, fwd, hook>>

\* lines 156-157: the handler's except clause catches and logs
HandlerExcept(h) ==
    /\ cur = h
    /\ conn[h].pc = "handler_except"
    /\ conn' = [conn EXCEPT ![h] =
                 [@ EXCEPT !.pc = "handler_finally", !.exc = FALSE,
                           !.logged = TRUE]]
    /\ UNCHANGED <<active_sessions, cur, swept, fwd, hook>>

\* lines 158-161: the handler's removal step
HandlerFinally(h) ==
    /\ cur = h
    /\ conn[h].pc = "handler_finally"
    /\ active_sessions' =
         IF DictHas(active_sessions, conn[h].call_sid)
         THEN DictDel(active_sessions, conn[h].call_sid)
         ELSE active_sessions
    /\ conn' = [conn EXCEPT ![h] = [@ EXCEPT !.pc = "close_call"]]
    /\ UNCHANGED <<cur, swept, fwd, hook>>

\* lines 162-163: websocket.close() is called and the task waits in it
CloseCall(h) ==
    /\ cur = h
    /\ conn[h].pc = "close_call"
    /\ conn' = [conn EXCEPT ![h] = [@ EXCEPT !.pc = "closing", !.closed = TRUE]]
    /\ cur' = 0
    /\ UNCHANGED <<active_sessions, swept, fwd, hook>>

\* lines 163-166: close() returns or raises; the bare except swallows it
ResumeClose(h, ok) ==
    /\ cur = 0
    /\ conn[h].pc = "closing"
    /\ conn' = [conn EXCEPT ![h] = [@ EXCEPT !.pc = "done", !.closeFailed = ~ok]]
    /\ UNCHANGED <<active_sessions, cur, swept, fwd, hook>>

\* ---------------------------------------------------------------- the sweep
\* lines 293-298: the call ids whose record has status "ended"
InactiveSessions(d) == {r.call_sid : r \in {x \in d : x.status = "ended"}}

\* lines 300-302 without the removal
SweepDeleteNone(d, ks) == d

\* lines 300-302: delete each collected call id that is still present
SweepDelete(d, ks) == {r \in d : r.call_sid \notin ks}

\* lines 290-305: one cycle of cleanup_inactive_sessions, from one sleep to
\* the next; there is no await between the scan and the deletions
SweepCycle ==
    /\ cur = 0
    /\ swept' = InactiveSessions(active_sessions)
    /\ active_sessions' = SweepDelete(active_sessions, InactiveSessions(active_sessions))
    /\ UNCHANGED <<conn, cur, fwd, hook>>

HandlerStep(h) ==
    \/ \E f \in FirstFrames : Receive(h, f)
    \/ CreateSession(h)
    \/ \E ok \in BOOLEAN : DriverSetup(h, ok)
    \/ DriverSetRunning(h)
    \/ \E ok \in BOOLEAN : ResumeQueueFrames(h, ok)
    \/ \E ok \in BOOLEAN : ResumeRunnerRun(h, ok)
    \/ DriverExcept(h)
    \/ DriverFinally(h)
    \/ HandlerExcept(h)
    \/ HandlerFinally(h)
    \/ CloseCall(h)
    \/ \E ok \in BOOLEAN : ResumeClose(h, ok)

Next ==
    \/ \E h \in Conns, c \in CallIds, ok \in BOOLEAN : Accept(h, c, ok)
    \/ \E h \in Conns : HandlerStep(h)
    \/ SweepCycle

\* ------------------------------------------------------- specifications
\* The media session handlers and the sweep on one event loop.
Spec == Init /\ [][Next]_vars

\* Every task that can run is eventually run: the event loop resumes a ready
\* task, the peer sends a first frame or disconnects, and the driver's awaits
\* and close() return or raise.
FairSpec == Spec /\ \A h \in Conns : WF_vars(HandlerStep(h))

\* The sweep as an operation on the dict: one cycle applied to every dict of
\* session records with at most one record per call id (in Spec no record
\* with status "ended" outlives the step that writes it).
Statuses == {"active", "running", "ended", "error"}

StoredRecords(c) ==
    {[SessionRecord(h, c, f) EXCEPT !.status = s] :
        h \in Conns, f \in {x \in FirstFrames : StartOutcome(x) = "create"},
        s \in Statuses}

RECURSIVE RegistriesOver(_)
RegistriesOver(n) ==
    IF n = 0 THEN {{}}
    ELSE {d \cup x : d \in RegistriesOver(n - 1),
                     x \in {{}} \cup {{r} : r \in StoredRecords(n)}}

Registries == RegistriesOver(MaxCall)

SweepInit ==
    /\ active_sessions \in Registries
    /\ conn = [h \in Conns |-> InitConn]
    /\ cur = 0
    /\ swept = {}
    /\ fwd = FwdIdle
    /\ hook = HookIdle

SweepSpec == SweepInit /\ [][SweepCycle]_vars

\* The forwarding step applied to every frame and every endpoint behaviour.
FwdInit ==
    /\ active_sessions = {}
    /\ conn = [h \in Conns |-> InitConn]
    /\ cur = 0
    /\ swept = {}
    /\ fwd \in FwdInputs
    /\ hook = HookIdle

FwdNext == \E e \in Endpoints : ProcessFrame(e)

FwdSpec == FwdInit /\ [][FwdNext]_vars

\* The inbound call handler applied to every webhook POST.
HookInit ==
    /\ active_sessions = {}
    /\ conn = [h \in Conns |-> InitConn]
    /\ cur = 0
    /\ swept = {}
    /\ fwd = FwdIdle
    /\ hook \in HookInputs

HookSpec == HookInit /\ [][HandleTwilioCall]_vars

\* ------------------------------------------------------------------ claims
RecordsOf(d, c) == {r \in d : r.call_sid = c}

\* The handler of h has made its removal step and is ending the session.
Ending(h) == conn[h].pc \in {"close_call", "closing", "done"}

C1_OneRecord ==
    /\ \A c \in CallIds : Cardinality(RecordsOf(active_sessions, c)) <= 1
    /\ \A h \in Conns :
        /\ conn[h].pc = "drv_setup" =>
             RecordsOf(active_sessions, conn[h].call_sid) =
               {SessionRecord(h, conn[h].call_sid, conn[h].frame)}
        /\ conn[h].pc = "close_call" =>
             RecordsOf(active_sessions, conn[h].call_sid) = {}

C1_AbsentRemovalNoOp ==
    \A h \in Conns :
        (HandlerFinally(h) /\ ~DictHas(active_sessions, conn[h].call_sid)) =>
            /\ active_sessions' = active_sessions
            /\ ~conn'[h].exc
            /\ ~conn'[h].escaped

\* C1: after any sequence of handler and sweep steps the registry holds at
\* most one record per call id; right after a handler creates the session for
\* c it holds exactly one record for c (the one just built); right after the
\* handler's removal step it holds none; and a removal step that finds c
\* absent leaves the registry unchanged and raises nothing.
C1_RegistryOnePerCall == []C1_OneRecord /\ [][C1_AbsentRemovalNoOp]_vars

\* Two connections to one call id, both past creation: one handler has removed
\* the record and the other's removal step has found it absent.
C1_Witness ==
    \E h1, h2 \in Conns :
        /\ h1 # h2
        /\ conn[h1].call_sid = conn[h2].call_sid
        /\ conn[h1].created /\ conn[h2].created
        /\ conn[h1].pc = "done" /\ conn[h2].pc = "close_call"
        /\ conn[h2].logged /\ ~conn[h2].exc

StatusForward(s, t) ==
    \/ s = t
    \/ <<s, t>> \in {<<"active", "running">>, <<"running", "ended">>,
                     <<"running", "error">>}

\* C2: in every step, the status stored under a call id that has a record
\* before and after the step stays the same or moves active -> running,
\* running -> ended or running -> error.
C2_StatusForward ==
    [][\A c \in CallIds :
          (DictHas(active_sessions, c) /\ DictHas(active_sessions', c)) =>
              StatusForward(DictGet(active_sessions, c).status,
                            DictGet(active_sessions', c).status)]_vars

ValidStart(f) ==
    /\ f.recv = "text"
    /\ f.json = "object"
    /\ f.event = "start"
    /\ f.start = "sid"

FirstFrameInvalid(h) == conn[h].attempts > 0 /\ ~ValidStart(conn[h].frame)

C4_NoSession ==
    \A h \in Conns :
        FirstFrameInvalid(h) =>
            /\ ~conn[h].created
            /\ ~conn[h].invoked
            /\ ~conn[h].escaped
            /\ \A r \in active_sessions : r.session_id # h
            /\ conn[h].pc \in {"handler_except", "handler_finally", "close_call",
                                "closing", "done"}

\* C4: a connection whose first frame is not a valid start event (the peer
\* sent no JSON, no start event, or a start event without the stream
\* identifier) never creates a registry record, never invokes the driver, lets
\* no exception out of the handler, and ends: the handler finishes.
C4_InvalidStartEnds ==
    /\ []C4_NoSession
    /\ \A h \in Conns : FirstFrameInvalid(h) ~> (conn[h].pc = "done")

\* A handler has finished after a start event that lacks the stream identifier.
C4_Witness ==
    \E h \in Conns :
        /\ conn[h].pc = "done"
        /\ conn[h].frame.event = "start"
        /\ conn[h].frame.start = "nosid"
        /\ conn[h].logged

\* The state the handler of h enters the ended state in: the removal step is
\* done, close() has been called and the registry holds no record for the call.
EndedEntry(h) ==
    /\ conn[h].pc = "closing"
    /\ conn[h].closed
    /\ ~DictHas(active_sessions, conn[h].call_sid)

C5_OneAttempt ==
    \A h \in Conns :
        /\ conn[h].attempts <= 1
        /\ Ending(h) /\ conn[h].accepted => conn[h].attempts = 1
        /\ conn[h].accepted => ~conn[h].escaped
        /\ conn[h].pc = "done" /\ conn[h].accepted => conn[h].closed

\* C5: an accepted handshake makes exactly one session attempt and, the
\* driver's awaits returning or raising, reaches the ended state, in which the
\* registry holds no record for its call id and close() has been called; the
\* handler then finishes whether close() returns or raises, and no exception
\* leaves it.
C5_HandshakeEnds ==
    /\ []C5_OneAttempt
    /\ \A h \in Conns : (conn[h].pc = "awaiting_start") ~> EndedEntry(h)
    /\ \A h \in Conns : conn[h].accepted ~> (conn[h].pc = "done")

\* A handler whose driver ran has finished although close() raised.
C5_Witness ==
    \E h \in Conns :
        /\ conn[h].pc = "done"
        /\ conn[h].accepted /\ conn[h].invoked
        /\ conn[h].closed /\ conn[h].closeFailed
        /\ ~conn[h].escaped
        /\ ~DictHas(active_sessions, conn[h].call_sid)

\* C6: when the body of the driver has raised and the handler has finished,
\* the error was logged, the record under the session's call id was given
\* status error, close() was called and no exception left the handler.
C6_DriverFailureMarked ==
    \A h \in Conns :
        (conn[h].pc = "done" /\ conn[h].invoked /\ conn[h].failed) =>
            /\ conn[h].drvLogged
            /\ conn[h].marked
            /\ conn[h].closed
            /\ ~conn[h].escaped

UpstreamUtterance == fwd.kind = "TranscriptionFrame" /\ fwd.direction = "UPSTREAM"

Trimmed(t) == t # <<>> /\ ~IsSpace(t[1]) /\ ~IsSpace(t[Len(t)])

\* C7: an upstream transcription whose text t is non-empty and trimmed, with
\* the endpoint answering 200 and a JSON object whose response is a non-empty
\* string r: the forward returns r and the frame's text becomes
\* t, two newlines, "[Appointment system response: ", r, "]".
C7_ReplySpliced ==
    (/\ fwd.phase = "done"
     /\ UpstreamUtterance
     /\ Trimmed(fwd.text)
     /\ fwd.endpoint.transport = "ok"
     /\ fwd.endpoint.status = 200
     /\ fwd.endpoint.body = "object"
     /\ fwd.endpoint.response.t = "str"
     /\ fwd.endpoint.response.s # <<>>)
    => /\ fwd.posts = 1
       /\ ~fwd.raised
       /\ fwd.reply = Str(fwd.endpoint.response.s)
       /\ fwd.out = fwd.text \o Newline \o Newline \o ResponsePrefix
                      \o fwd.endpoint.response.s \o <<93>>

\* "hi" was forwarded and the endpoint answered 200 {"response": "OK"}.
C7_Witness ==
    /\ fwd.phase = "done"
    /\ fwd.text = PlainHi
    /\ fwd.reply = Str(ReplyOK)
    /\ fwd.posts = 1

\* The endpoint timed out, the transport failed, the status was not 200 or
\* the body was not JSON.
EndpointFailed(e) ==
    \/ e.transport \in {"timeout", "error"}
    \/ e.transport = "ok" /\ e.status # 200
    \/ e.transport = "ok" /\ e.body = "notjson"

\* C8: an upstream transcription with text left after trimming, and the
\* endpoint failing: the forward returns None and raises nothing, the frame's
\* text is the original text, the frame is passed on, and one POST was made.
C8_FailureLeavesUtterance ==
    (/\ fwd.phase = "done"
     /\ UpstreamUtterance
     /\ \E i \in 1..Len(fwd.text) : ~IsSpace(fwd.text[i])
     /\ EndpointFailed(fwd.endpoint))
    => /\ fwd.reply = None
       /\ ~fwd.raised
       /\ fwd.out = fwd.text
       /\ fwd.posts = 1

\* " hi" was forwarded, the endpoint timed out, and " hi" is passed on.
C8_Witness ==
    /\ fwd.phase = "done"
    /\ fwd.text = Space \o PlainHi
    /\ fwd.endpoint.transport = "timeout"
    /\ fwd.posts = 1
    /\ fwd.out = Space \o PlainHi

\* The Bengali Unicode block, U+0980 through U+09FF
BengaliBlock == 2432..2559

\* C9: the language sent with a forwarded utterance is bengali if and only if
\* the utterance holds a codepoint of the Bengali block, and english otherwise.
C9_BengaliBlock ==
    (fwd.phase = "done" /\ fwd.posts = 1) =>
        LET t == Strip(fwd.text) IN
        /\ fwd.language \in {"bengali", "english"}
        /\ fwd.language = "bengali" <=> \E i \in 1..Len(t) : t[i] \in BengaliBlock

HasAny(t, words) == \E w \in words : Contains(Lower(t), w)

HasBook(t) == HasAny(t, {KwAppointment, KwBook, KwSchedule, KwTime, KwDate})
HasModify(t) == HasAny(t, {KwCancel, KwReschedule, KwChange})
HasCheck(t) == HasAny(t, {KwConfirm, KwCheck, KwStatus})

\* C10 as stated: the intent sent with a forwarded utterance is
\* book_appointment when the utterance holds a book keyword,
\* modify_appointment when it holds a cancel/change keyword,
\* check_appointment when it holds a confirm/check keyword, and
\* general_inquiry when it holds none, matching substrings without regard to
\* case.
C10_IntentKeywords ==
    (fwd.phase = "done" /\ fwd.posts = 1) =>
        LET t == Strip(fwd.text) IN
        /\ HasBook(t) => fwd.intent = "book_appointment"
        /\ HasModify(t) => fwd.intent = "modify_appointment"
        /\ HasCheck(t) => fwd.intent = "check_appointment"
        /\ ~(HasBook(t) \/ HasModify(t) \/ HasCheck(t)) =>
             fwd.intent = "general_inquiry"

\* C10 as amended: the keyword classes are tried in the order book,
\* cancel/change, confirm/check and the first class with a keyword in the
\* utterance decides; general_inquiry when no class has one.
C10_IntentFirstMatch ==
    (fwd.phase = "done" /\ fwd.posts = 1) =>
        LET t == Strip(fwd.text) IN
        /\ HasBook(t) => fwd.intent = "book_appointment"
        /\ (~HasBook(t) /\ HasModify(t)) => fwd.intent = "modify_appointment"
        /\ (~HasBook(t) /\ ~HasModify(t) /\ HasCheck(t)) =>
             fwd.intent = "check_appointment"
        /\ ~(HasBook(t) \/ HasModify(t) \/ HasCheck(t)) =>
             fwd.intent = "general_inquiry"

\* "Cancelappointment", which holds a cancel keyword and a book keyword, was
\* forwarded with intent book_appointment.
C10_Witness ==
    /\ fwd.phase = "done"
    /\ fwd.text = MixedCancel \o KwAppointment
    /\ fwd.posts = 1
    /\ fwd.intent = "book_appointment"

\* Characters that end or break an XML attribute value: " < &
XmlSafe(v) == \A i \in 1..Len(v) : v[i] \notin {34, 38, 60}

WellFormed(doc) ==
    \/ doc.kind = "say"
    \/ doc.kind = "connect" /\ XmlSafe(doc.url) /\ XmlSafe(doc.caller_id)
         /\ XmlSafe(doc.call_sid)

\* C11: the inbound call handler never raises and answers with a well-formed
\* document: when the form is read (no internal failure) it is the connect
\* document whose stream URL is wss://<public hostname>/ws/<call id>, with the
\* caller id and the call id as parameters and "unknown" for a missing field;
\* when the form cannot be read it is the apology document.
C11_WebhookDocument ==
    hook.phase = "done" =>
        /\ ~hook.raised
        /\ WellFormed(hook.response)
        /\ ~hook.formOk => hook.response = ApologyDocument
        /\ hook.formOk =>
             LET call_sid == IF hook.form.CallSid = Missing THEN Unknown
                             ELSE hook.form.CallSid
                 caller_id == IF hook.form.From = Missing THEN Unknown
                              ELSE hook.form.From
                 host == IF hook.domain = Missing THEN DefaultDomain ELSE hook.domain
             IN hook.response =
                  ConnectDocument(WssScheme \o host \o WsPath \o call_sid,
                                  caller_id, call_sid)

\* C12: a driver whose record was removed while it was in progress (by
\* another handler's cleanup or by the sweep) treats its later status updates
\* as no-ops: no status update of any driver raises KeyError for a missing
\* record.
C12_MissingRecordTolerated ==
    \A h \in Conns : conn[h].invoked => ~conn[h].keyError

\* C13: every driver waiting in queue_frames() or runner.run() has a record
\* under its call id that carries its own session id, whatever other
\* connections do.
C13_OwnRecord ==
    \A h \in Conns :
        conn[h].pc \in {"in_queue_frames", "in_runner_run"} =>
            \E r \in active_sessions :
                r.call_sid = conn[h].call_sid /\ r.session_id = h

\* C14: whenever every task is suspended, and so whenever a sweep cycle can
\* run, no record has status ended; no sweep cycle has removed anything.
C14_NoEndedAtSuspension ==
    /\ cur = 0 => \A r \in active_sessions : r.status # "ended"
    /\ swept = {}

\* Every task is suspended, one driver has written ended and its handler has
\* removed the record and waits in close(), and another session is running.
C14_Witness ==
    /\ cur = 0
    /\ \E h \in Conns :
        /\ conn[h].pc = "closing"
        /\ conn[h].invoked /\ ~conn[h].keyError
    /\ \E r \in active_sessions : r.status = "running"

====
